---- MODULE Spec2Model ----
(***************************************************************************)
(* Model of tournament.py, a Swiss-system tournament kept in a PostgreSQL  *)
(* database.  The state is the database (tables players and matches and    *)
(* the serial of players.player_id) and what the last call handed back to  *)
(* its caller: a return value or a raised exception.                       *)
(***************************************************************************)
EXTENDS Bags, FiniteSets, Integers, Sequences, TLC

\* ------------------------------------------------------------------ bounds
\* Largest value the serial of players.player_id hands out.
MaxId == 2
\* Largest number of rows of the matches table.
MaxMatches == 2
\* Largest value of the serial in the documented example.
MaxScenarioPlayers == 4

\* ------------------------------------------------------------------ values
\* SQL NULL / Python None in an integer column (ids are >= 1, counts >= 0).
NULL == 0 - 1
\* SQL NULL / Python None in the player_name column.
NullName == "None"

\* Names handed to registerPlayer.
Names == {"A", "<script>"}
\* The documented example: players A, B, C, D are registered in this order,
\* then 1 beats 2 and 3 beats 4.
ScenarioNames == <<"A", "B", "C", "D">>
ScenarioMatches == {<<1, 2>>, <<3, 4>>}
\* Name of the k-th player registered; players after the four of the example
\* bring markup.
ScenarioName(k) ==
  IF k \in DOMAIN ScenarioNames THEN ScenarioNames[k] ELSE "<script>"

\* bleach.clean(name): text without markup is kept, markup outside the white
\* list is escaped.
clean(name) ==
  IF name = "<script>" THEN "&lt;script&gt;" ELSE name

Ids == 1..MaxId

VARIABLES
  players,            \* table players: set of rows [player_id, player_name]
  matches,            \* table matches: bag of rows <<win_player_id, lose_player_id>>
  nextId,             \* next value of the serial of players.player_id
  op,                 \* the function called last
  fault,              \* where the data store failed in that call ("none" if it did not)
  raised,             \* the exception that call left to its caller ("none" if it returned)
  executes,           \* number of cur.execute calls that call made
  player_stand_list,  \* rows fetched by the last playerStandings()
  ret                 \* the value returned: [kind, val]

vars == <<players, matches, nextId, op, fault, raised, executes, player_stand_list, ret>>

None == [kind |-> "None", val |-> NULL]
IntVal(n) == [kind |-> "int", val |-> n]
ListVal(s) == [kind |-> "list", val |-> s]

\* ------------------------------------------------------------------ schema
PlayerIds == {p.player_id : p \in players}

\* matches.win_player_id and matches.lose_player_id reference players(player_id).
ForeignKeyOk(winner, loser) ==
  winner \in PlayerIds /\ loser \in PlayerIds

\* Rows of matches that reference some player (DELETE FROM players is refused
\* while there are any).
Referenced == BagToSet(matches) # {}

\* Number of rows of matches with id p in column col (1 winner, 2 loser).
RECURSIVE CountRows(_, _, _)
CountRows(rows, col, p) ==
  IF rows = {} THEN 0
  ELSE LET r == CHOOSE x \in rows : TRUE
       IN  (IF r[col] = p THEN CopiesIn(r, matches) ELSE 0)
           + CountRows(rows \ {r}, col, p)

\* VIEW winners: SELECT win_player_id, COUNT(*) wins FROM matches GROUP BY win_player_id
winners ==
  {[win_player_id |-> p, wins |-> CountRows(BagToSet(matches), 1, p)] :
     p \in {r[1] : r \in BagToSet(matches)}}

\* VIEW losers: SELECT lose_player_id, COUNT(*) loss FROM matches GROUP BY lose_player_id
losers ==
  {[lose_player_id |-> p, loss |-> CountRows(BagToSet(matches), 2, p)] :
     p \in {r[2] : r \in BagToSet(matches)}}

\* COALESCE left out: a NULL stays a NULL.
COALESCE_absent(x, d) == x

COALESCE(x, d) == IF x = NULL THEN d ELSE x

\* ------------------------------------------------------------------ plyr_stnd_q
\* Column col of the row of view whose key column has value k, NULL when the
\* view has no such row (the outer side of a join).
Lookup(view, key, k, col) ==
  IF \E r \in view : r[key] = k
  THEN (CHOOSE r \in view : r[key] = k)[col]
  ELSE NULL

\* Keys of winners FULL OUTER JOIN losers ON win_player_id = lose_player_id.
StandingKeys ==
  {r.win_player_id : r \in winners} \cup {r.lose_player_id : r \in losers}

\* The total counts the matches won only.
total_wins_only(wins, loss) == COALESCE(wins, 0)

\* COALESCE(wins,0)+COALESCE(loss,0) total
total(wins, loss) == COALESCE(wins, 0) + COALESCE(loss, 0)

\* WITH player_standing AS (SELECT COALESCE(win_player_id, lose_player_id) player_id,
\*   COALESCE(wins,0) wins, COALESCE(loss,0) loss, COALESCE(wins,0)+COALESCE(loss,0) total
\*   FROM winners FULL OUTER JOIN losers ON win_player_id = lose_player_id)
player_standing ==
  {[player_id |-> COALESCE(Lookup(winners, "win_player_id", k, "win_player_id"),
                           Lookup(losers, "lose_player_id", k, "lose_player_id")),
    wins  |-> COALESCE(Lookup(winners, "win_player_id", k, "wins"), 0),
    loss  |-> COALESCE(Lookup(losers, "lose_player_id", k, "loss"), 0),
    total |-> total(Lookup(winners, "win_player_id", k, "wins"),
                    Lookup(losers, "lose_player_id", k, "loss"))] :
     k \in StandingKeys}

\* An inner join: only players with a row in player_standing.
JoinKeys_inner == PlayerIds \cap {r.player_id : r \in player_standing}

\* Keys of players FULL OUTER JOIN player_standing
\*   ON players.player_id = player_standing.player_id: one joined row per key.
JoinKeys == PlayerIds \cup {r.player_id : r \in player_standing}

\* player_name of the players side of the joined row, None on the outer side.
NameOf(k) ==
  IF k \in PlayerIds
  THEN (CHOOSE p \in players : p.player_id = k).player_name
  ELSE NullName

\* The third column selects total instead of wins.
Row_total_as_wins(k) ==
  << IF k \in PlayerIds THEN k ELSE NULL,
     NameOf(k),
     COALESCE(Lookup(player_standing, "player_id", k, "total"), 0),
     COALESCE(Lookup(player_standing, "player_id", k, "total"), 0) >>

\* SELECT players.player_id, player_name, COALESCE(wins,0) matches_won,
\*        COALESCE(total,0) total_matches: the joined row of key k as the
\* tuple (id, name, wins, matches) cur.fetchall() gives.
Row(k) ==
  << IF k \in PlayerIds THEN k ELSE NULL,
     NameOf(k),
     COALESCE(Lookup(player_standing, "player_id", k, "wins"), 0),
     COALESCE(Lookup(player_standing, "player_id", k, "total"), 0) >>

\* All orders of the elements of S.
RECURSIVE Orders(_)
Orders(S) ==
  IF S = {} THEN {<<>>}
  ELSE UNION {{<<x>> \o t : t \in Orders(S \ {x})} : x \in S}

\* cur.fetchall(): the joined rows, each with its key.  The query has no
\* ORDER BY: the store may hand its rows back in any order.
FetchAll ==
  LET keyed == {<<k, Row(k)>> : k \in JoinKeys}
  IN  {[i \in 1..Len(o) |-> o[i][2]] : o \in Orders(keyed)}

\* ------------------------------------------------------------------ swissPairings
\* The parity test left out.
OddCount_never(standings) == FALSE

\* len(standings) % 2 != 0
OddCount(standings) == Len(standings) % 2 # 0

\* The comprehension steps by 1 instead of 2: pairs overlap.
pair_result_step1(standings) ==
  [j \in 1..(Len(standings) \div 2) |->
     << standings[j][1],     standings[j][2],
        standings[j + 1][1], standings[j + 1][2] >>]

\* [(standings[i][0], standings[i][1], standings[i+1][0], standings[i+1][1])
\*    for i in xrange(0, len(standings), 2)]     (0-based i = 2*(j-1))
pair_result(standings) ==
  [j \in 1..(Len(standings) \div 2) |->
     << standings[2*j - 1][1], standings[2*j - 1][2],
        standings[2*j][1],     standings[2*j][2] >>]

\* ------------------------------------------------------------------ failures
\* Where the data store can fail in a call that writes (connect, cur.execute,
\* db.commit) and in one that only reads (connect, cur.execute).
WriteFaults == {"none", "connect", "execute", "commit"}
ReadFaults == {"none", "connect", "execute"}

\* The handler lets the database error through.
OnDatabaseError_reraise == "DatabaseError"

\* except psycopg2.DatabaseError: rollback, print, sys.exit(1).
OnDatabaseError == "SystemExit(1)"

\* cur.execute is reached once unless connect failed; it is never repeated.
Executes(f) == IF f = "connect" THEN 0 ELSE 1

\* What a call that met store failure f leaves: the transaction is rolled
\* back, nothing is returned.
Failed(name, f) ==
  /\ op' = name
  /\ fault' = f
  /\ raised' = OnDatabaseError
  /\ executes' = Executes(f)
  /\ player_stand_list' = <<>>
  /\ ret' = None

\* What a call that met no failure leaves.
Returned(name, value) ==
  /\ op' = name
  /\ fault' = "none"
  /\ raised' = "none"
  /\ executes' = 1
  /\ ret' = value

\* ------------------------------------------------------------------ operations
Init ==
  /\ players = {}
  /\ matches = EmptyBag
  /\ nextId = 1
  /\ op = "none"
  /\ fault = "none"
  /\ raised = "none"
  /\ executes = 0
  /\ player_stand_list = <<>>
  /\ ret = None

\* deleteMatches(): DELETE FROM matches
deleteMatches(f) ==
  /\ IF f = "none"
     THEN /\ matches' = EmptyBag
          /\ player_stand_list' = <<>>
          /\ Returned("deleteMatches", None)
     ELSE /\ UNCHANGED matches
          /\ Failed("deleteMatches", f)
  /\ UNCHANGED <<players, nextId>>

\* deletePlayers(): DELETE FROM players
deletePlayers(f) ==
  /\ IF f # "none"
     THEN /\ UNCHANGED players
          /\ Failed("deletePlayers", f)
     ELSE IF players # {} /\ Referenced
     THEN /\ UNCHANGED players
          /\ Failed("deletePlayers", "constraint")
     ELSE /\ players' = {}
          /\ player_stand_list' = <<>>
          /\ Returned("deletePlayers", None)
  /\ UNCHANGED <<matches, nextId>>

\* countPlayers(): SELECT COUNT(player_id) FROM players
countPlayers(f) ==
  /\ IF f = "none"
     THEN /\ player_stand_list' = <<>>
          /\ Returned("countPlayers", IntVal(Cardinality(players)))
     ELSE Failed("countPlayers", f)
  /\ UNCHANGED <<players, matches, nextId>>

\* registerPlayer(name): INSERT INTO players (player_name) VALUES (clean(name)).
\* The serial is not transactional: an insert that fails at commit has used
\* its value.
registerPlayer(name, f) ==
  /\ IF f = "none"
     THEN /\ players' = players \cup
                 {[player_id |-> nextId, player_name |-> clean(name)]}
          /\ nextId' = nextId + 1
          /\ player_stand_list' = <<>>
          /\ Returned("registerPlayer", None)
     ELSE /\ UNCHANGED players
          /\ nextId' = IF f = "commit" THEN nextId + 1 ELSE nextId
          /\ Failed("registerPlayer", f)
  /\ UNCHANGED matches

\* playerStandings()
playerStandings(f) ==
  /\ IF f = "none"
     THEN \E rows \in FetchAll :
            /\ player_stand_list' = rows
            /\ Returned("playerStandings", ListVal(rows))
     ELSE Failed("playerStandings", f)
  /\ UNCHANGED <<players, matches, nextId>>

\* reportMatch(winner, loser):
\*   INSERT INTO matches (win_player_id, lose_player_id) VALUES (winner, loser)
reportMatch(winner, loser, f) ==
  /\ IF f # "none"
     THEN /\ UNCHANGED matches
          /\ Failed("reportMatch", f)
     ELSE IF ~ForeignKeyOk(winner, loser)
     THEN /\ UNCHANGED matches
          /\ Failed("reportMatch", "constraint")
     ELSE /\ matches' = matches (+) SetToBag({<<winner, loser>>})
          /\ player_stand_list' = <<>>
          /\ Returned("reportMatch", None)
  /\ UNCHANGED <<players, nextId>>

\* swissPairings()
swissPairings(f) ==
  /\ IF f = "none"
     THEN \E standings \in FetchAll :
            /\ player_stand_list' = standings
            /\ op' = "swissPairings"
            /\ fault' = "none"
            /\ executes' = 1
            /\ IF OddCount(standings)
               THEN /\ raised' = "Exception"
                    /\ ret' = None
               ELSE /\ raised' = "none"
                    /\ ret' = ListVal(pair_result(standings))
     ELSE Failed("swissPairings", f)
  /\ UNCHANGED <<players, matches, nextId>>

\* Any caller: any name, any two ids, the store failing anywhere.
Next ==
  \/ /\ nextId <= MaxId
     /\ \E name \in Names, f \in WriteFaults : registerPlayer(name, f)
  \/ /\ BagCardinality(matches) < MaxMatches
     /\ \E winner \in Ids, loser \in Ids, f \in WriteFaults :
          reportMatch(winner, loser, f)
  \/ \E f \in WriteFaults : deleteMatches(f)
  \/ \E f \in WriteFaults : deletePlayers(f)
  \/ \E f \in ReadFaults : countPlayers(f)
  \/ \E f \in ReadFaults : playerStandings(f)
  \/ \E f \in ReadFaults : swissPairings(f)

Spec == Init /\ [][Next]_vars

\* The caller of the documented example, on a store that does not fail: the
\* k-th player registered is named ScenarioNames[k], the matches reported are
\* those of ScenarioMatches, each once, in any order.
NextScenario ==
  \/ /\ nextId <= MaxScenarioPlayers
     /\ registerPlayer(ScenarioName(nextId), "none")
  \/ \E m \in ScenarioMatches :
       /\ ~BagIn(m, matches)
       /\ reportMatch(m[1], m[2], "none")
  \/ deleteMatches("none")
  \/ deletePlayers("none")
  \/ countPlayers("none")
  \/ playerStandings("none")
  \/ swissPairings("none")

SpecScenario == Init /\ [][NextScenario]_vars

\* ------------------------------------------------------------------ properties
\* The last call was playerStandings() and it returned its list.
StandingsReturned == op = "playerStandings" /\ raised = "none"
\* The last call was swissPairings() and it returned its list.
PairingsReturned == op = "swissPairings" /\ raised = "none"

\* Number of stored matches among ms, counted row by row.
RECURSIVE Tally(_)
Tally(ms) ==
  IF ms = {} THEN 0
  ELSE LET m == CHOOSE x \in ms : TRUE
       IN  CopiesIn(m, matches) + Tally(ms \ {m})
Won(p) == Tally({m \in BagToSet(matches) : m[1] = p})
Lost(p) == Tally({m \in BagToSet(matches) : m[2] = p})

\* Sum of the wins column of a standings list.
RECURSIVE SumWins(_)
SumWins(s) == IF s = <<>> THEN 0 ELSE Head(s)[3] + SumWins(Tail(s))

\* Positions of the entries of player p in list s, looking at column col.
Entries(s, col, p) == {i \in DOMAIN s : s[i][col] = p}

\* C1: the list playerStandings() returns is ordered by wins descending: for
\* any two positions i < j, entry i has at least as many wins as entry j.
C1_SortedByWins ==
  StandingsReturned =>
    \A i, j \in DOMAIN ret.val : i < j => ret.val[i][3] >= ret.val[j][3]

\* C2: the list playerStandings() returns has as many entries as countPlayers()
\* counts, exactly one for each registered player and none for anyone else.
C2_OneEntryPerPlayer ==
  /\ (op = "countPlayers" /\ raised = "none") =>
        ret = IntVal(Cardinality(players))
  /\ StandingsReturned =>
        /\ Len(ret.val) = Cardinality(players)
        /\ \A p \in PlayerIds : Cardinality(Entries(ret.val, 1, p)) = 1
        /\ \A i \in DOMAIN ret.val : ret.val[i][1] \in PlayerIds

\* Two players and a stored match, standings returned.
C2_Witness ==
  /\ StandingsReturned
  /\ Cardinality(players) = 2
  /\ BagCardinality(matches) >= 1

\* C3: swissPairings() returns exactly playerCount / 2 pairings when the number
\* of registered players is even (the empty list for 0 players) and raises an
\* error, returning nothing, when it is odd.
C3_PairingCount ==
  (op = "swissPairings" /\ fault = "none") =>
     IF Cardinality(players) % 2 = 0
     THEN /\ raised = "none"
          /\ ret.kind = "list"
          /\ Len(ret.val) = Cardinality(players) \div 2
     ELSE /\ raised = "Exception"
          /\ ret = None

\* Four players paired into two pairings.
C3_Witness ==
  /\ PairingsReturned
  /\ Cardinality(players) = 4
  /\ Len(ret.val) = 2

\* C4: with an even number of players, every registered id is in exactly one
\* slot of exactly one pairing, and no other id is in any pairing.
C4_EachPlayerOnce ==
  PairingsReturned =>
    /\ \A p \in PlayerIds :
         Cardinality(Entries(ret.val, 1, p)) + Cardinality(Entries(ret.val, 3, p)) = 1
    /\ \A j \in DOMAIN ret.val :
         ret.val[j][1] \in PlayerIds /\ ret.val[j][3] \in PlayerIds

\* Four players with both matches of the example stored, pairings returned.
C4_Witness ==
  /\ PairingsReturned
  /\ Cardinality(players) = 4
  /\ BagCardinality(matches) = 2

\* C5: pairing i is (id, name) of entries 2i and 2i+1 of the wins-descending
\* standings, so the first member of each pair has at least as many wins as
\* the second.
C5_AdjacentInRanking ==
  PairingsReturned =>
    /\ \A i, j \in DOMAIN player_stand_list :
         i < j => player_stand_list[i][3] >= player_stand_list[j][3]
    /\ \A j \in DOMAIN ret.val :
         /\ ret.val[j] = << player_stand_list[2*j - 1][1], player_stand_list[2*j - 1][2],
                            player_stand_list[2*j][1],     player_stand_list[2*j][2] >>
         /\ Won(ret.val[j][1]) >= Won(ret.val[j][3])

\* C6: the wins column of the standings sums to the number of stored matches.
C6_WinsSumToMatches ==
  StandingsReturned => SumWins(ret.val) = BagCardinality(matches)

\* Standings returned with two matches stored.
C6_Witness ==
  /\ StandingsReturned
  /\ BagCardinality(matches) = 2
  /\ Len(ret.val) >= 1

\* C7: a registered player who is in no stored match has an entry in the
\* standings, with wins = 0 and matches = 0 (not NULL).
C7_IdlePlayerZero ==
  StandingsReturned =>
    \A p \in PlayerIds :
      (Won(p) = 0 /\ Lost(p) = 0) =>
         /\ Entries(ret.val, 1, p) # {}
         /\ \A i \in Entries(ret.val, 1, p) :
              ret.val[i][3] = 0 /\ ret.val[i][4] = 0

\* Standings returned with matches stored and a player who is in none of them.
C7_Witness ==
  /\ StandingsReturned
  /\ BagCardinality(matches) >= 1
  /\ \E p \in PlayerIds : Won(p) = 0 /\ Lost(p) = 0

\* C8: for every registered player the matches column is the number of stored
\* matches won plus the number lost, and the wins column the number won.
C8_MatchesAreWinsPlusLosses ==
  StandingsReturned =>
    \A p \in PlayerIds :
      /\ Entries(ret.val, 1, p) # {}
      /\ \A i \in Entries(ret.val, 1, p) :
           /\ ret.val[i][3] = Won(p)
           /\ ret.val[i][4] = Won(p) + Lost(p)

\* Standings returned with a player who was reported as winner and loser of
\* the same match and also lost another one.
C8_Witness ==
  /\ StandingsReturned
  /\ \E p, q \in PlayerIds :
       p # q /\ BagIn(<<p, p>>, matches) /\ BagIn(<<q, p>>, matches)

\* The state of the documented example: A, B, C, D with ids 1-4, 1 beat 2 and
\* 3 beat 4.
ScenarioState ==
  /\ players = {[player_id |-> k, player_name |-> ScenarioNames[k]] : k \in 1..4}
  /\ matches = SetToBag(ScenarioMatches)

\* C9: players with equal wins are listed by ascending id, so the result is
\* determined by the stored data: in the documented example the standings are
\* [(1,A,1,1),(3,C,1,1),(2,B,0,1),(4,D,0,1)] and the pairings
\* [(1,A,3,C),(2,B,4,D)].
C9_TiesInRegistrationOrder ==
  /\ StandingsReturned =>
       \A i, j \in DOMAIN ret.val :
         (i < j /\ ret.val[i][3] = ret.val[j][3]) => ret.val[i][1] < ret.val[j][1]
  /\ (StandingsReturned /\ ScenarioState) =>
       ret.val = << <<1, "A", 1, 1>>, <<3, "C", 1, 1>>,
                    <<2, "B", 0, 1>>, <<4, "D", 0, 1>> >>
  /\ (PairingsReturned /\ ScenarioState) =>
       ret.val = << <<1, "A", 3, "C">>, <<2, "B", 4, "D">> >>

\* C10 as stated: a failure of the data store reaches the caller as the
\* database error itself.
C10_PropagatedUnmodified ==
  fault # "none" => raised = "DatabaseError"

\* C10 as amended: a call in which the data store fails makes one attempt at
\* most, leaves players and matches as they were, returns nothing and ends in
\* sys.exit(1): the caller gets SystemExit, not the database error.
C10_ExitsOnStoreFailure ==
  [][fault' # "none" =>
       /\ raised' = "SystemExit(1)"
       /\ ret' = None
       /\ executes' <= 1
       /\ players' = players
       /\ matches' = matches]_vars

\* swissPairings() met a store failure inside playerStandings().
C10_Witness ==
  /\ op = "swissPairings"
  /\ fault = "execute"
  /\ Cardinality(players) = 2

====
